---- MODULE Spec2Model ----
(***************************************************************************)
(* PortionFetcher.getPortion (src/lib/fetchers/PortionFetcher.ts) and the  *)
(* ClassicQuote entity (src/lib/entities/quote/ClassicQuote.ts).           *)
(*                                                                         *)
(* Strings are sequences of one-character strings, so that toLowerCase,    *)
(* the cache key template and BigNumber.from are computed, not assumed.    *)
(*                                                                         *)
(* Three specifications share the definitions below:                       *)
(*   Spec            getPortion with the flag read from one environment    *)
(*                   variable (both reads of a call agree)                 *)
(*   SpecCacheAside  getPortion with a flag that may be switched between   *)
(*                   the two reads of a call: an over-approximation, and   *)
(*                   the only way lines 102-147 run                        *)
(*   SpecQuote       ClassicQuote accessors, setAllowanceData and          *)
(*                   getPermitData                                         *)
(***************************************************************************)
EXTENDS Integers, Sequences, FiniteSets, TLC

VARIABLES
  ENABLE_PORTION,   \* the flag uraEnablePortion() reads
  forcePortion,     \* the imported forcePortion constant
  ttls,             \* <<positiveCacheEntryTtl, negativeCacheEntryTtl>>
  cache,            \* portionCache: the stored keys -> [value, expires]
  cacheFails,       \* whether the cache store's get/set currently throw
  now,              \* wall clock, in seconds
  calls,            \* the getPortion calls in flight: position, arguments, and
                    \* whether the call before them failed on the same key
  last,             \* the getPortion call that ended last: result, I/O it did
  started,          \* history: how many getPortion calls were made
  quote,            \* the ClassicQuote: request, quoteData, allowanceData
  clockMs,          \* new Date().getTime(), in milliseconds
  lastSet,          \* history: the argument of the latest setAllowanceData call
  observed          \* what the quote's caller read since the last change

vars == <<ENABLE_PORTION, forcePortion, ttls, cache, cacheFails, now, calls, last, started,
          quote, clockMs, lastSet, observed>>

portionVars == <<ENABLE_PORTION, forcePortion, ttls, cache, cacheFails, now, calls, last, started>>

quoteVars == <<quote, clockMs, lastSet, observed>>

\* ---------------------------------------------------------------- bounds
MaxCalls == 2
MaxTime == 2
MaxStarted == 3
MaxClockMs == 2500
ClockStepMs == 500

Calls == 1..MaxCalls

\* ---------------------------------------------------------------- strings
\* an optional value (T | undefined): Absent, or Present(x) holding x
Absent == <<>>
Present(x) == <<x>>
IsPresent(o) == Len(o) = 1
The(o) == o[1]

UpperCaseLetters ==
  {"A","B","C","D","E","F","G","H","I","J","K","L","M",
   "N","O","P","Q","R","S","T","U","V","W","X","Y","Z"}

\* String.prototype.toLowerCase on one ASCII character
toLowerCaseChar(ch) ==
  IF ch \notin UpperCaseLetters THEN ch
  ELSE CASE ch = "A" -> "a"
         [] ch = "B" -> "b"
         [] ch = "C" -> "c"
         [] ch = "D" -> "d"
         [] ch = "E" -> "e"
         [] ch = "F" -> "f"
         [] ch = "G" -> "g"
         [] ch = "H" -> "h"
         [] ch = "I" -> "i"
         [] ch = "J" -> "j"
         [] ch = "K" -> "k"
         [] ch = "L" -> "l"
         [] ch = "M" -> "m"
         [] ch = "N" -> "n"
         [] ch = "O" -> "o"
         [] ch = "P" -> "p"
         [] ch = "Q" -> "q"
         [] ch = "R" -> "r"
         [] ch = "S" -> "s"
         [] ch = "T" -> "t"
         [] ch = "U" -> "u"
         [] ch = "V" -> "v"
         [] ch = "W" -> "w"
         [] ch = "X" -> "x"
         [] ch = "Y" -> "y"
         [] ch = "Z" -> "z"

toLowerCaseIdentity(s) == s

toLowerCase(s) == [i \in 1..Len(s) |-> toLowerCaseChar(s[i])]

Digits == <<"0","1","2","3","4","5","6","7","8","9">>

RECURSIVE numberToString(_)
numberToString(n) ==
  IF n < 10 THEN <<Digits[n + 1]>>
  ELSE numberToString(n \div 10) \o <<Digits[(n % 10) + 1]>>

\* Array.prototype.includes
includes(list, s) == s \in { list[i] : i \in 1..Len(list) }

\* ---------------------------------------------------------------- constants
BX_PORTION_ADDRESSES ==
  << <<"e","t","h">>,
     <<"0","x","0","0","0","0","0","0","0","0","0","0","0","0","0","0","0","0","0","0","0","0","0","0","0","0","0","0","0","0","0","0","0","0","0","0","0","0","0","0","0","0">>,
     <<"0","x","a","0","b","8","6","9","9","1","c","6","2","1","8","b","3","6","c","1","d","1","9","d","4","a","2","e","9","e","b","0","c","e","3","6","0","6","e","b","4","8">>,
     <<"0","x","c","0","2","a","a","a","3","9","b","2","2","3","f","e","8","d","0","a","0","e","5","c","4","f","2","7","e","a","d","9","0","8","3","c","7","5","6","c","c","2">>,
     <<"0","x","d","a","c","1","7","f","9","5","8","d","2","e","e","5","2","3","a","2","2","0","6","2","0","6","9","9","4","5","9","7","c","1","3","d","8","3","1","e","c","7">>,
     <<"0","x","6","b","1","7","5","4","7","4","e","8","9","0","9","4","c","4","4","d","a","9","8","b","9","5","4","e","e","d","e","a","c","4","9","5","2","7","1","d","0","f">>,
     <<"0","x","2","2","6","0","f","a","c","5","e","5","5","4","2","a","7","7","3","a","a","4","4","f","b","c","f","e","d","f","7","c","1","9","3","b","c","2","c","5","9","9">>,
     <<"0","x","1","a","7","e","4","e","6","3","7","7","8","b","4","f","1","2","a","1","9","9","c","0","6","2","f","3","e","f","d","d","2","8","8","a","f","c","b","c","e","8">>,
     <<"0","x","0","5","6","f","d","4","0","9","e","1","d","7","a","1","2","4","b","d","7","0","1","7","4","5","9","d","f","e","a","2","f","3","8","7","b","6","d","5","c","d">>,
     <<"0","x","5","f","9","8","8","0","5","a","4","e","8","b","e","2","5","5","a","3","2","8","8","0","f","d","e","c","7","f","6","7","2","8","c","6","5","6","8","b","a","0">>,
     <<"0","x","1","a","b","a","e","a","1","f","7","c","8","3","0","b","d","8","9","a","c","c","6","7","e","c","4","a","f","5","1","6","2","8","4","b","1","b","c","3","3","c">>,
     <<"0","x","7","0","e","8","d","e","7","3","c","e","5","3","8","d","a","2","b","e","e","d","3","5","d","1","4","1","8","7","f","6","9","5","9","a","8","e","c","a","9","6">> >>

BX_RECIPIENT == <<"0","x","2","7","2","1","3","E","2","8","D","7","f","D","A","5","c","5","7","F","e","9","e","5","d","D","9","2","3","8","1","8","D","B","C","c","f","7","1","c","4","7">>

Flat == "flat"
Regressive == "regressive"

GET_NO_PORTION_RESPONSE == [hasPortion |-> FALSE, portion |-> Absent]

\* the flat response built without its portion
BX_PORTION_RESPONSE_NoPortion == [hasPortion |-> TRUE, portion |-> Absent]

BX_PORTION_RESPONSE ==
  [hasPortion |-> TRUE,
   portion |-> Present([bips |-> 5, recipient |-> BX_RECIPIENT, type |-> Flat])]

KEY_PREFIX == <<"P","o","r","t","i","o","n","F","e","t","c","h","e","r","-">>

PORTION_CACHE_KEY(tokenInChainId, tokenInAddress, tokenOutChainId, tokenOutAddress) ==
  KEY_PREFIX \o numberToString(tokenInChainId) \o <<"-">> \o toLowerCase(tokenInAddress)
    \o <<"-">> \o numberToString(tokenOutChainId) \o <<"-">> \o toLowerCase(tokenOutAddress)

\* ---------------------------------------------------------------- inputs
ADDR_ETH_UPPER == <<"E","T","H">>
ADDR_USDC_CHECKSUM == <<"0","x","A","0","b","8","6","9","9","1","c","6","2","1","8","b","3","6","c","1","d","1","9","D","4","a","2","e","9","E","b","0","c","E","3","6","0","6","e","B","4","8">>
ADDR_USDC_LOWER == <<"0","x","a","0","b","8","6","9","9","1","c","6","2","1","8","b","3","6","c","1","d","1","9","d","4","a","2","e","9","e","b","0","c","e","3","6","0","6","e","b","4","8">>
ADDR_UNI_CHECKSUM == <<"0","x","1","f","9","8","4","0","a","8","5","d","5","a","F","5","b","f","1","D","1","7","6","2","F","9","2","5","B","D","A","D","d","C","4","2","0","1","F","9","8","4">>
ADDR_UNI_LOWER == <<"0","x","1","f","9","8","4","0","a","8","5","d","5","a","f","5","b","f","1","d","1","7","6","2","f","9","2","5","b","d","a","d","d","c","4","2","0","1","f","9","8","4">>
OTHER_RECIPIENT == <<"0","x","f","e","e">>

Args(ci, ai, co, ao) ==
  [tokenInChainId |-> ci, tokenInAddress |-> ai, tokenOutChainId |-> co, tokenOutAddress |-> ao]

\* the argument tuples callers pass: allowlisted pairs in two letter cases,
\* pairs with one or both tokens off the allowlist, and a second chain
Inputs ==
  { Args(1, ADDR_ETH_UPPER, 1, ADDR_USDC_CHECKSUM),
    Args(1, ADDR_UNI_CHECKSUM, 1, ADDR_USDC_CHECKSUM),
    Args(1, ADDR_UNI_LOWER, 1, ADDR_USDC_LOWER),
    Args(137, ADDR_UNI_CHECKSUM, 1, ADDR_USDC_CHECKSUM),
    Args(1, ADDR_USDC_CHECKSUM, 1, ADDR_UNI_CHECKSUM) }

\* the tuples used on the cache path: one pair in two letter cases, and the
\* same pair on another chain
CacheAsideInputs ==
  { Args(1, ADDR_UNI_CHECKSUM, 1, ADDR_USDC_CHECKSUM),
    Args(1, ADDR_UNI_LOWER, 1, ADDR_USDC_LOWER),
    Args(137, ADDR_UNI_CHECKSUM, 1, ADDR_USDC_CHECKSUM) }

KeyOf(a) ==
  PORTION_CACHE_KEY(a.tokenInChainId, a.tokenInAddress, a.tokenOutChainId, a.tokenOutAddress)

Keys == { KeyOf(a) : a \in Inputs }

\* the bodies a 2xx answer of the portion service may carry
RemotePortion == [bips |-> 25, recipient |-> OTHER_RECIPIENT, type |-> Regressive]

Bodies ==
  { [hasPortion |-> TRUE, portion |-> Present(RemotePortion)],
    [hasPortion |-> FALSE, portion |-> Absent],
    [hasPortion |-> TRUE, portion |-> Absent] }

WellFormed(r) == r.hasPortion = IsPresent(r.portion)

\* ---------------------------------------------------------------- cache store
\* node-cache as the fetcher uses it: set(key, value, ttl) stamps the entry with
\* now + ttl, get(key) answers the value until the stamp lies in the past
EmptyCache == <<>>

CacheGet(store, key, time) ==
  IF key \in DOMAIN store /\ store[key].expires >= time
  THEN Present(store[key].value)
  ELSE Absent

CacheSet(store, key, value, ttl, time) ==
  [k \in DOMAIN store \cup {key} |->
     IF k = key THEN [value |-> value, expires |-> time + ttl] ELSE store[k]]

positiveCacheEntryTtl == ttls[1]
negativeCacheEntryTtl == ttls[2]

TtlChoices == { <<2, 1>>, <<1, 2>> }

\* ---------------------------------------------------------------- getPortion
uraEnablePortion == ENABLE_PORTION

Return(v, g) == [kind |-> "return", val |-> Present(v), get |-> g]
Await(g) == [kind |-> "await", val |-> Absent, get |-> g]
Throw(g) == [kind |-> "throw", val |-> Absent, get |-> g]

\* lines 102-111: the cache read, outside the try block
cacheAsideRead(a) ==
  IF forcePortion THEN Await(FALSE)
  ELSE IF cacheFails THEN Throw(TRUE)
  ELSE LET portionFromCache == CacheGet(cache, KeyOf(a), now)
       IN  IF IsPresent(portionFromCache)
           THEN Return(The(portionFromCache), TRUE)
           ELSE Await(TRUE)

\* getPortion without the allowlist block of lines 86-93
getPortionSync_NoAllowlistBlock(flag1, flag2, a) ==
  IF ~flag2 THEN Return(GET_NO_PORTION_RESPONSE, FALSE)
  ELSE cacheAsideRead(a)

\* getPortion without the flag-disabled return of lines 97-100
getPortionSync_NoDisabledReturn(flag1, flag2, a) ==
  IF flag1
  THEN IF includes(BX_PORTION_ADDRESSES, toLowerCase(a.tokenInAddress))
          /\ includes(BX_PORTION_ADDRESSES, toLowerCase(a.tokenOutAddress))
       THEN Return(BX_PORTION_RESPONSE, FALSE)
       ELSE Return(GET_NO_PORTION_RESPONSE, FALSE)
  ELSE cacheAsideRead(a)

\* lines 84-111: getPortion up to its first await; flag1 and flag2 are what the
\* two uraEnablePortion() reads of lines 86 and 97 return
getPortionSync(flag1, flag2, a) ==
  IF flag1
  THEN IF includes(BX_PORTION_ADDRESSES, toLowerCase(a.tokenInAddress))
          /\ includes(BX_PORTION_ADDRESSES, toLowerCase(a.tokenOutAddress))
       THEN Return(BX_PORTION_RESPONSE, FALSE)
       ELSE Return(GET_NO_PORTION_RESPONSE, FALSE)
  ELSE IF ~flag2
       THEN Return(GET_NO_PORTION_RESPONSE, FALSE)
       ELSE cacheAsideRead(a)

Value(v) == [kind |-> "value", val |-> Present(v)]
Thrown == [kind |-> "throw", val |-> Absent]
NoRet == [kind |-> "none", val |-> Absent]

Settled(ret, store, set) == [ret |-> ret, cache |-> store, set |-> set]

\* the success branch with the two TTLs exchanged
onRemoteSuccess_TtlSwapped(a, data) ==
  IF ~forcePortion
  THEN Settled(Value(data),
               CacheSet(cache, KeyOf(a), data,
                        IF IsPresent(data.portion) THEN negativeCacheEntryTtl
                                                    ELSE positiveCacheEntryTtl, now),
               TRUE)
  ELSE Settled(Value(data), cache, FALSE)

\* the success branch writing the cache whatever forcePortion says
onRemoteSuccess_AlwaysWrites(a, data) ==
  Settled(Value(data),
          CacheSet(cache, KeyOf(a), data,
                   IF IsPresent(data.portion) THEN positiveCacheEntryTtl
                                               ELSE negativeCacheEntryTtl, now),
          TRUE)

\* lines 123-139: the remote call resolved with a 2xx answer carrying `data`;
\* a throwing cache.set lands in the catch block of lines 140-147
onRemoteSuccess(a, data) ==
  IF ~forcePortion
  THEN IF cacheFails
       THEN Settled(Value(GET_NO_PORTION_RESPONSE), cache, TRUE)
       ELSE Settled(Value(data),
                    CacheSet(cache, KeyOf(a), data,
                             IF IsPresent(data.portion) THEN positiveCacheEntryTtl
                                                         ELSE negativeCacheEntryTtl, now),
                    TRUE)
  ELSE Settled(Value(data), cache, FALSE)

\* the catch block caching the fallback it returns
onRemoteFailure_CachesFallback(a) ==
  Settled(Value(GET_NO_PORTION_RESPONSE),
          CacheSet(cache, KeyOf(a), GET_NO_PORTION_RESPONSE, negativeCacheEntryTtl, now),
          TRUE)

\* the catch block letting the error escape
onRemoteFailure_Rethrows(a) == Settled(Thrown, cache, FALSE)

\* lines 140-147: the remote call rejected (network error, non-2xx, unreadable body)
onRemoteFailure(a) == Settled(Value(GET_NO_PORTION_RESPONSE), cache, FALSE)

IdleCall ==
  [pc |-> "idle", args |-> Absent, flags |-> <<FALSE, FALSE>>, didGet |-> FALSE,
   retry |-> FALSE]

NoCall ==
  [args |-> Absent, flags |-> <<FALSE, FALSE>>, ret |-> NoRet, didGet |-> FALSE,
   didSet |-> FALSE, didRemote |-> FALSE, own |-> Absent, failed |-> FALSE,
   hadEntry |-> FALSE, storeDown |-> FALSE]

ArgsOf(c) == The(calls[c].args)

\* a caller invokes getPortion(a); the code runs to its first await, or to the
\* end when it returns or throws before awaiting
Begin(c, a, flag1, flag2) ==
  /\ calls[c].pc = "idle"
  /\ started < MaxStarted
  /\ started' = started + 1
  /\ \E r \in {getPortionSync(flag1, flag2, a)} :
       IF r.kind = "await"
       THEN /\ calls' = [calls EXCEPT ![c] =
                 [pc |-> "awaitRemote", args |-> Present(a),
                  flags |-> <<flag1, flag2>>, didGet |-> r.get,
                  retry |-> last.failed /\ KeyOf(The(last.args)) = KeyOf(a)]]
            /\ last' = last
       ELSE /\ calls' = calls
            /\ last' = [args |-> Present(a),
                        flags |-> <<flag1, flag2>>,
                        ret |-> IF r.kind = "return" THEN Value(The(r.val)) ELSE Thrown,
                        didGet |-> r.get,
                        didSet |-> FALSE,
                        didRemote |-> FALSE,
                        own |-> Absent,
                        failed |-> FALSE,
                        hadEntry |-> FALSE,
                        storeDown |-> cacheFails]
  /\ UNCHANGED <<forcePortion, ttls, cache, cacheFails, now, quoteVars>>

\* getPortion with the flag read from the environment: lines 86 and 97 run with
\* no await between them, so both reads see the same value
GetPortion(c, a) ==
  /\ Begin(c, a, uraEnablePortion, uraEnablePortion)
  /\ UNCHANGED ENABLE_PORTION

\* An over-approximation of the flag source, used only to exercise lines 102-147:
\* line 86 reads the flag as it is, the flag may be switched before line 97 reads
\* it again, and it keeps the value line 97 read.  The environment variable of
\* Spec cannot change between the two reads, so there these lines never run.
GetPortionFlagProvider(c, a) ==
  \E flag2 \in BOOLEAN :
    /\ Begin(c, a, uraEnablePortion, flag2)
    /\ ENABLE_PORTION' = flag2

\* the awaited remote call of call c resolves; getPortion runs to its end
RemoteResolve(c, data) ==
  /\ calls[c].pc = "awaitRemote"
  /\ \E r \in {onRemoteSuccess(ArgsOf(c), data)} :
       /\ last' = [args |-> calls[c].args, flags |-> calls[c].flags, ret |-> r.ret,
                   didGet |-> calls[c].didGet, didSet |-> r.set, didRemote |-> TRUE,
                   own |-> Present(data), failed |-> FALSE, hadEntry |-> FALSE,
                   storeDown |-> cacheFails]
       /\ cache' = r.cache
  /\ calls' = [calls EXCEPT ![c] = IdleCall]
  /\ UNCHANGED <<ENABLE_PORTION, forcePortion, ttls, cacheFails, now, started,
                 quoteVars>>

\* the awaited remote call of call c rejects; getPortion runs to its end
RemoteReject(c) ==
  /\ calls[c].pc = "awaitRemote"
  /\ \E r \in {onRemoteFailure(ArgsOf(c))} :
       /\ last' = [args |-> calls[c].args, flags |-> calls[c].flags, ret |-> r.ret,
                   didGet |-> calls[c].didGet, didSet |-> r.set, didRemote |-> TRUE,
                   own |-> Absent, failed |-> TRUE,
                   hadEntry |-> IsPresent(CacheGet(cache, KeyOf(ArgsOf(c)), now)),
                   storeDown |-> cacheFails]
       /\ cache' = r.cache
  /\ calls' = [calls EXCEPT ![c] = IdleCall]
  /\ UNCHANGED <<ENABLE_PORTION, forcePortion, ttls, cacheFails, now, started,
                 quoteVars>>

\* the wall clock advances by a second
Tick ==
  /\ now < MaxTime
  /\ now' = now + 1
  /\ UNCHANGED <<ENABLE_PORTION, forcePortion, ttls, cache, cacheFails, calls, last,
                 started, quoteVars>>

\* the operator flips the environment variable behind uraEnablePortion
SetEnablePortion ==
  /\ ENABLE_PORTION' = ~ENABLE_PORTION
  /\ UNCHANGED <<forcePortion, ttls, cache, cacheFails, now, calls, last,
                 started, quoteVars>>

\* the cache store starts or stops failing
SetCacheFails ==
  /\ cacheFails' = ~cacheFails
  /\ UNCHANGED <<ENABLE_PORTION, forcePortion, ttls, cache, now, calls, last,
                 started, quoteVars>>

\* ---------------------------------------------------------------- ClassicQuote
EXACT_INPUT == "EXACT_INPUT"
EXACT_OUTPUT == "EXACT_OUTPUT"

DigitValue(ch) == (CHOOSE i \in 1..Len(Digits) : Digits[i] = ch) - 1

\* BigNumber.from on a decimal string
RECURSIVE BigNumber_from(_)
BigNumber_from(s) ==
  IF Len(s) = 0 THEN 0
  ELSE 10 * BigNumber_from(SubSeq(s, 1, Len(s) - 1)) + DigitValue(s[Len(s)])

\* a JavaScript string used as a condition: undefined and "" are falsy
Truthy(o) == IsPresent(o) /\ Len(The(o)) > 0

\* quoteData.quoteGasAndPortionAdjusted ?? quoteData.quoteGasAdjusted
NullishCoalesce(o, fallback) == IF IsPresent(o) THEN The(o) ELSE fallback

amountOut(q) ==
  IF q.request.type = EXACT_INPUT
  THEN BigNumber_from(q.quoteData.quote)
  ELSE BigNumber_from(q.quoteData.amount)

amountOutGasAdjusted(q) ==
  IF q.request.type = EXACT_INPUT
  THEN BigNumber_from(q.quoteData.quoteGasAdjusted)
  ELSE BigNumber_from(q.quoteData.amount)

amountOutGasAndPortionAdjusted(q) ==
  IF q.request.type = EXACT_INPUT
  THEN BigNumber_from(NullishCoalesce(q.quoteData.quoteGasAndPortionAdjusted,
                                      q.quoteData.quoteGasAdjusted))
  ELSE BigNumber_from(q.quoteData.amount)

amountIn(q) ==
  IF q.request.type = EXACT_OUTPUT
  THEN BigNumber_from(q.quoteData.quote)
  ELSE BigNumber_from(q.quoteData.amount)

amountInGasAdjusted(q) ==
  IF q.request.type = EXACT_OUTPUT
  THEN BigNumber_from(q.quoteData.quoteGasAdjusted)
  ELSE BigNumber_from(q.quoteData.amount)

\* the accessor falling back to the plain quote instead of the gas-adjusted one
amountInGasAndPortionAdjusted_FallsBackToQuote(q) ==
  IF q.request.type = EXACT_OUTPUT
  THEN BigNumber_from(NullishCoalesce(q.quoteData.quoteGasAndPortionAdjusted,
                                      q.quoteData.quote))
  ELSE BigNumber_from(q.quoteData.amount)

amountInGasAndPortionAdjusted(q) ==
  IF q.request.type = EXACT_OUTPUT
  THEN BigNumber_from(NullishCoalesce(q.quoteData.quoteGasAndPortionAdjusted,
                                      q.quoteData.quoteGasAdjusted))
  ELSE BigNumber_from(q.quoteData.amount)

\* util/permit2 createPermitData(tokenIn, tokenInChainId, nonce)
createPermitData(token, chainId, nonce) ==
  [token |-> token, chainId |-> chainId, nonce |-> nonce]

\* getPermitData accepting an allowance that expires in the current second
getPermitData_ExpiryNotStrict(q, ms) ==
  IF \/ ~Truthy(q.request.swapper)
     \/ /\ IsPresent(q.allowanceData)
        /\ BigNumber_from(The(q.allowanceData).amount) >= amountIn(q)
        /\ The(q.allowanceData).expiration >= ms \div 1000
  THEN Absent
  ELSE Present(createPermitData(q.request.tokenIn, q.request.tokenInChainId,
                 IF IsPresent(q.allowanceData)
                 THEN numberToString(The(q.allowanceData).nonce)
                 ELSE <<"0">>))

\* lines 138-152, with ms what new Date().getTime() returns
getPermitData(q, ms) ==
  IF \/ ~Truthy(q.request.swapper)
     \/ /\ IsPresent(q.allowanceData)
        /\ BigNumber_from(The(q.allowanceData).amount) >= amountIn(q)
        /\ The(q.allowanceData).expiration > ms \div 1000
  THEN Absent
  ELSE Present(createPermitData(q.request.tokenIn, q.request.tokenInChainId,
                 IF IsPresent(q.allowanceData)
                 THEN numberToString(The(q.allowanceData).nonce)
                 ELSE <<"0">>))

\* lines 89-96: a quote as fromResponseBody(request, body) constructs it
fromResponseBody(request, body) ==
  [request |-> request, quoteData |-> body, allowanceData |-> Absent]

Requests ==
  [type : {EXACT_INPUT, EXACT_OUTPUT},
   swapper : {Absent, Present(<<>>), Present(ADDR_UNI_LOWER)},
   tokenIn : {ADDR_USDC_CHECKSUM},
   tokenInChainId : {1}]

QuoteBodies ==
  [amount : { <<"1","0","0">>, <<"7">> },
   quote : { <<"9","5">>, <<"1","0","0">> },
   quoteGasAdjusted : { <<"9","0">>, <<"0","9","5">> },
   quoteGasAndPortionAdjusted : { Absent, Present(<<"8","8">>), Present(<<"9","0">>) }]

Allowances ==
  [amount : { <<"9","5">>, <<"1","0","0">> },
   expiration : {0, 1, 2},
   nonce : {0, 3}]

NoObservation == [op |-> "none", permit |-> Absent, amounts |-> Absent]

\* lines 200-202
SetAllowanceData(data) ==
  /\ quote' = [quote EXCEPT !.allowanceData = data]
  /\ lastSet' = data
  /\ observed' = NoObservation
  /\ UNCHANGED <<clockMs, portionVars>>

\* the caller reads the six amount accessors (lines 154-194)
ReadAmounts ==
  /\ observed' = [op |-> "amounts", permit |-> Absent,
                  amounts |-> Present(
                    [amountIn |-> amountIn(quote),
                     amountInGasAdjusted |-> amountInGasAdjusted(quote),
                     amountInGasAndPortionAdjusted |-> amountInGasAndPortionAdjusted(quote),
                     amountOut |-> amountOut(quote),
                     amountOutGasAdjusted |-> amountOutGasAdjusted(quote),
                     amountOutGasAndPortionAdjusted |-> amountOutGasAndPortionAdjusted(quote)])]
  /\ UNCHANGED <<quote, clockMs, lastSet, portionVars>>

\* the caller asks for the permit data (lines 138-152)
GetPermitData ==
  /\ observed' = [op |-> "getPermitData", permit |-> getPermitData(quote, clockMs),
                  amounts |-> Absent]
  /\ UNCHANGED <<quote, clockMs, lastSet, portionVars>>

\* the wall clock advances
TickMs ==
  /\ clockMs < MaxClockMs
  /\ clockMs' = clockMs + ClockStepMs
  /\ observed' = NoObservation
  /\ UNCHANGED <<quote, lastSet, portionVars>>

\* ---------------------------------------------------------------- specifications
PriorKey == KeyOf(Args(1, ADDR_UNI_CHECKSUM, 1, ADDR_USDC_CHECKSUM))
PriorBody == [hasPortion |-> TRUE, portion |-> Present(RemotePortion)]

\* the injected cache is empty or holds what an earlier fetcher stored
InitialCaches == { EmptyCache, CacheSet(EmptyCache, PriorKey, PriorBody, 1, 0) }

DefaultQuote ==
  fromResponseBody(
    [type |-> EXACT_INPUT, swapper |-> Absent, tokenIn |-> ADDR_USDC_CHECKSUM,
     tokenInChainId |-> 1],
    [amount |-> <<"1","0","0">>, quote |-> <<"9","5">>, quoteGasAdjusted |-> <<"9","0">>,
     quoteGasAndPortionAdjusted |-> Absent])

InitPortionState ==
  /\ ENABLE_PORTION \in BOOLEAN
  /\ forcePortion \in BOOLEAN
  /\ ttls \in TtlChoices
  /\ cache \in InitialCaches
  /\ cacheFails = FALSE
  /\ now = 0
  /\ calls = [c \in Calls |-> IdleCall]
  /\ last = NoCall
  /\ started = 0

InitQuoteState(requests, bodies) ==
  /\ quote \in { fromResponseBody(r, b) : r \in requests, b \in bodies }
  /\ clockMs = 0
  /\ lastSet = Absent
  /\ observed = NoObservation

Init == InitPortionState /\ InitQuoteState({DefaultQuote.request}, {DefaultQuote.quoteData})

Next ==
  \/ \E c \in Calls, a \in Inputs : GetPortion(c, a)
  \/ SetEnablePortion
  \/ SetCacheFails
  \/ Tick

Spec == Init /\ [][Next]_vars

NextCacheAside ==
  \/ \E c \in Calls, a \in CacheAsideInputs : GetPortionFlagProvider(c, a)
  \/ \E c \in Calls, data \in Bodies : RemoteResolve(c, data)
  \/ \E c \in Calls : RemoteReject(c)
  \/ SetEnablePortion
  \/ Tick

\* the flag starts off; without forcePortion the calls themselves fill the cache
InitCacheAside ==
  /\ Init
  /\ ENABLE_PORTION = FALSE
  /\ forcePortion \/ cache = EmptyCache

SpecCacheAside == InitCacheAside /\ [][NextCacheAside]_vars

InitQuote ==
  /\ ENABLE_PORTION = FALSE
  /\ forcePortion = FALSE
  /\ ttls = <<2, 1>>
  /\ cache = EmptyCache
  /\ cacheFails = FALSE
  /\ now = 0
  /\ calls = [c \in Calls |-> IdleCall]
  /\ last = NoCall
  /\ started = 0
  /\ InitQuoteState(Requests, QuoteBodies)

NextQuote ==
  \/ \E data \in {Absent} \cup { Present(d) : d \in Allowances } : SetAllowanceData(data)
  \/ ReadAmounts
  \/ GetPermitData
  \/ TickMs

SpecQuote == InitQuote /\ [][NextQuote]_vars

\* ---------------------------------------------------------------- claims: getPortion
NoPortion == [hasPortion |-> FALSE, portion |-> Absent]

FlatFive ==
  [hasPortion |-> TRUE,
   portion |-> Present([bips |-> 5, recipient |-> BX_RECIPIENT, type |-> "flat"])]

Ended == IsPresent(last.args)

FlagOff(f) == f = <<FALSE, FALSE>>
FlagOn(f) == f = <<TRUE, TRUE>>
\* the reads that lead a call past both returns of lines 86-100
OnCachePath(f) == f = <<FALSE, TRUE>>

SameIgnoringCase(s, t) ==
  /\ Len(s) = Len(t)
  /\ \A i \in 1..Len(s) : toLowerCaseChar(s[i]) = toLowerCaseChar(t[i])

OnAllowlist(addr) ==
  \E i \in 1..Len(BX_PORTION_ADDRESSES) : SameIgnoringCase(BX_PORTION_ADDRESSES[i], addr)

Live(store, key, time) == key \in DOMAIN store /\ store[key].expires >= time

\* some call went from awaiting the remote answer to its end in this step
Finishes(c) == calls[c].pc = "awaitRemote" /\ calls'[c].pc = "idle"
\* a call was made in this step and ended without awaiting
EndsAtOnce == started' = started + 1 /\ calls' = calls
\* a call was made in this step and now awaits the remote answer
StartsToAwait(c) == calls[c].pc = "idle" /\ calls'[c].pc = "awaitRemote"

C2_FlagDisabled ==
  /\ (Ended /\ FlagOff(last.flags)) =>
        /\ last.ret = Value(NoPortion)
        /\ ~last.didGet /\ ~last.didSet /\ ~last.didRemote
  /\ \A c \in Calls : calls[c].pc = "awaitRemote" => ~FlagOff(calls[c].flags)

\* a call made with the flag off, after an earlier call, against a non-empty cache
C2_Witness ==
  /\ Ended /\ FlagOff(last.flags) /\ ~ENABLE_PORTION
  /\ started >= 2 /\ cache # EmptyCache
  /\ last.ret = Value(NoPortion)

\* C3: with the flag enabled a call returns the flat response (bips 5, the fixed
\* recipient, type Flat) exactly when both token addresses are on the allowlist
\* up to letter case, else no-portion; it uses neither cache nor remote service,
\* and chain ids and cache contents do not matter
C3_AllowlistOnly ==
  /\ (Ended /\ FlagOn(last.flags)) =>
        /\ last.ret =
             Value(IF OnAllowlist(The(last.args).tokenInAddress)
                      /\ OnAllowlist(The(last.args).tokenOutAddress)
                   THEN FlatFive ELSE NoPortion)
        /\ ~last.didGet /\ ~last.didSet /\ ~last.didRemote
  /\ \A c \in Calls : calls[c].pc = "awaitRemote" => ~FlagOn(calls[c].flags)

\* the flat response was returned for "ETH" and a checksum-cased USDC address
C3_Witness ==
  /\ Ended /\ FlagOn(last.flags)
  /\ The(last.args).tokenInAddress = ADDR_ETH_UPPER
  /\ The(last.args).tokenOutAddress = ADDR_USDC_CHECKSUM
  /\ last.ret = Value(FlatFive)

LastKey == KeyOf(The(last.args))

TtlFor(data) == IF IsPresent(data.portion) THEN ttls[1] ELSE ttls[2]

C4_Step ==
  \* a successful remote answer is stored under the pair's key, stamped with the
  \* positive TTL when it carries a portion and the negative TTL when not
  /\ \A c \in Calls :
       (Finishes(c) /\ IsPresent(last'.own) /\ ~forcePortion) =>
          /\ KeyOf(ArgsOf(c)) \in DOMAIN cache'
          /\ cache'[KeyOf(ArgsOf(c))] =
               [value |-> The(last'.own), expires |-> now + TtlFor(The(last'.own))]
          /\ last'.ret = Value(The(last'.own))
  \* while the entry lives a call with the same inputs makes no remote call ...
  /\ \A c \in Calls :
       (StartsToAwait(c) /\ ~forcePortion) => ~Live(cache, KeyOf(The(calls'[c].args)), now)
  \* ... and returns the cached value
  /\ (EndsAtOnce /\ OnCachePath(last'.flags) /\ ~forcePortion) =>
          /\ Live(cache, KeyOf(The(last'.args)), now)
          /\ last'.ret = Value(cache[KeyOf(The(last'.args))].value)
          /\ last'.didGet /\ ~last'.didRemote /\ ~last'.didSet

\* C4: without force mode a successful remote response is cached under the pair's
\* key with the positive TTL if it carries a portion and the negative TTL if not,
\* and until that TTL expires a call with the same inputs returns the cached value
\* without a remote call
C4_CacheAside == [][C4_Step]_vars

\* an answer without a portion was served from the cache to a call whose
\* addresses differ in letter case from those of the call that stored it
C4_Witness ==
  /\ ~forcePortion /\ Ended /\ OnCachePath(last.flags)
  /\ last.didGet /\ ~last.didRemote
  /\ last.ret.kind = "value" /\ ~IsPresent(The(last.ret.val).portion)
  /\ The(last.args).tokenInAddress = ADDR_UNI_LOWER

\* a call is made in this step, on the cache path, with the key of the call that
\* ended last, and that call had failed
NextAfterFailure(f, a) ==
  /\ last.failed
  /\ started' = started + 1
  /\ OnCachePath(f)
  /\ KeyOf(The(a)) = LastKey

\* the failed call returns no-portion and writes nothing
FailureWritesNothing ==
  \A c \in Calls :
    (Finishes(c) /\ last'.failed) =>
       /\ last'.ret = Value(NoPortion)
       /\ ~last'.didSet
       /\ cache' = cache

C5_OriginalStep ==
  /\ FailureWritesNothing
  \* the call made next with the same inputs goes to the remote service
  /\ ~(EndsAtOnce /\ NextAfterFailure(last'.flags, last'.args))

C5_Step ==
  /\ FailureWritesNothing
  \* the call made next with the same inputs is served from the cache only if
  \* force mode is off and the entry was there, live, before the failure and is
  \* still live ...
  /\ (EndsAtOnce /\ NextAfterFailure(last'.flags, last'.args)) =>
        /\ ~forcePortion
        /\ last.hadEntry
        /\ Live(cache, LastKey, now)
        /\ last'.ret = Value(cache[LastKey].value)
        /\ ~last'.didRemote /\ ~last'.didSet
  \* ... and otherwise it goes to the remote service again
  /\ \A c \in Calls :
       (StartsToAwait(c) /\ NextAfterFailure(calls'[c].flags, calls'[c].args)) =>
          \/ forcePortion
          \/ ~last.hadEntry
          \/ ~Live(cache, LastKey, now)
  /\ (last.failed /\ started' = started + 1) =>
        \/ EndsAtOnce
        \/ \E c \in Calls : StartsToAwait(c)

C6_Step ==
  forcePortion =>
    /\ cache' = cache
    /\ (EndsAtOnce => ~OnCachePath(last'.flags))
    /\ \A c \in Calls : StartsToAwait(c) => ~calls'[c].didGet
    /\ \A c \in Calls :
         Finishes(c) => last'.didRemote /\ ~last'.didGet /\ ~last'.didSet

\* C6: in force mode every call that reaches the cache path calls the remote
\* service and neither reads nor writes the cache, so the cache is the same after
\* the calls as before
C6_ForceBypassesCache == [][C6_Step]_vars

\* in force mode, with an entry for the key in the cache, one call got its remote
\* answer and a second call with the same inputs is awaiting its own
C6_Witness ==
  /\ forcePortion /\ Ended /\ last.didRemote /\ IsPresent(last.own)
  /\ LastKey \in DOMAIN cache
  /\ \E c \in Calls : calls[c].pc = "awaitRemote" /\ calls[c].args = last.args

C10_Step ==
  \* every change of the cache is the answer of a remote call that just succeeded
  \* for that key
  /\ \A k \in DOMAIN cache' :
       (k \notin DOMAIN cache \/ cache'[k] # cache[k]) =>
          /\ \E c \in Calls : Finishes(c) /\ KeyOf(ArgsOf(c)) = k
          /\ IsPresent(last'.own)
          /\ cache'[k].value = The(last'.own)
  /\ DOMAIN cache \subseteq DOMAIN cache'
  \* a call that awaited returns its own answer, or no-portion after its own failure
  /\ \A c \in Calls :
       Finishes(c) =>
          \/ IsPresent(last'.own) /\ ~last'.failed /\ last'.ret = Value(The(last'.own))
          \/ ~IsPresent(last'.own) /\ last'.failed /\ last'.ret = Value(NoPortion)
  \* a call that did not await returns the value cached for its key
  /\ (EndsAtOnce /\ OnCachePath(last'.flags)) =>
          /\ KeyOf(The(last'.args)) \in DOMAIN cache
          /\ last'.ret = Value(cache[KeyOf(The(last'.args))].value)

\* C10: however calls in flight on one key interleave, each returns its own remote
\* answer, a value cached from a successful remote call for the key, or no-portion
\* after its own failure, and the key's cache entry is always absent or the answer
\* of a successful remote call for the key
C10_ConcurrentCalls == [][C10_Step]_vars

\* two calls for one key both missed the cache and both await the remote service
C10_Witness ==
  \E c1, c2 \in Calls :
    /\ c1 # c2
    /\ calls[c1].pc = "awaitRemote" /\ calls[c2].pc = "awaitRemote"
    /\ calls[c1].didGet /\ calls[c2].didGet
    /\ KeyOf(ArgsOf(c1)) = KeyOf(ArgsOf(c2))

\* ---------------------------------------------------------------- claims: ClassicQuote
Raw(field) == BigNumber_from(field)

\* what the claim calls the computed side of each accessor family
ComputedPlain == Raw(quote.quoteData.quote)
ComputedGasAdjusted == Raw(quote.quoteData.quoteGasAdjusted)
ComputedGasAndPortionAdjusted ==
  IF IsPresent(quote.quoteData.quoteGasAndPortionAdjusted)
  THEN Raw(The(quote.quoteData.quoteGasAndPortionAdjusted))
  ELSE ComputedGasAdjusted
Fixed == Raw(quote.quoteData.amount)

\* C8: the fixed side (amountIn of an EXACT_INPUT request, amountOut of an
\* EXACT_OUTPUT one) is the raw amount in all three accessor families; the
\* computed side is quote, quoteGasAdjusted, and quoteGasAndPortionAdjusted when
\* present, else the gas-adjusted value
C8_AmountAccessors ==
  observed.op = "amounts" =>
    LET r == The(observed.amounts)
        exactIn == quote.request.type = EXACT_INPUT
    IN  /\ quote.request.type \in {EXACT_INPUT, EXACT_OUTPUT}
        /\ exactIn =>
             /\ r.amountIn = Fixed
             /\ r.amountInGasAdjusted = Fixed
             /\ r.amountInGasAndPortionAdjusted = Fixed
             /\ r.amountOut = ComputedPlain
             /\ r.amountOutGasAdjusted = ComputedGasAdjusted
             /\ r.amountOutGasAndPortionAdjusted = ComputedGasAndPortionAdjusted
        /\ ~exactIn =>
             /\ r.amountOut = Fixed
             /\ r.amountOutGasAdjusted = Fixed
             /\ r.amountOutGasAndPortionAdjusted = Fixed
             /\ r.amountIn = ComputedPlain
             /\ r.amountInGasAdjusted = ComputedGasAdjusted
             /\ r.amountInGasAndPortionAdjusted = ComputedGasAndPortionAdjusted

\* an EXACT_OUTPUT quote without quoteGasAndPortionAdjusted was read, its raw
\* amount, quote and quoteGasAdjusted all different
C8_Witness ==
  /\ observed.op = "amounts"
  /\ quote.request.type = EXACT_OUTPUT
  /\ ~IsPresent(quote.quoteData.quoteGasAndPortionAdjusted)
  /\ Fixed # ComputedPlain /\ ComputedPlain # ComputedGasAdjusted
  /\ Fixed # ComputedGasAdjusted

RequiredAmountIn ==
  IF quote.request.type = EXACT_OUTPUT THEN ComputedPlain ELSE Fixed

NowSeconds == clockMs \div 1000

AllowanceSuffices ==
  /\ IsPresent(lastSet)
  /\ Raw(The(lastSet).amount) >= RequiredAmountIn
  /\ The(lastSet).expiration > NowSeconds

\* C9: getPermitData returns nothing exactly when the request names no swapper,
\* or the allowance set last covers amountIn and expires later than the current
\* second; otherwise it returns permit data for the request's tokenIn and chain
\* with the nonce of the allowance set last, or nonce 0 when none is recorded
C9_PermitData ==
  observed.op = "getPermitData" =>
    IF ~Truthy(quote.request.swapper) \/ AllowanceSuffices
    THEN observed.permit = Absent
    ELSE observed.permit =
           Present([token |-> quote.request.tokenIn,
                    chainId |-> quote.request.tokenInChainId,
                    nonce |-> IF IsPresent(lastSet)
                              THEN numberToString(The(lastSet).nonce)
                              ELSE <<"0">>])

\* a permit with nonce 3 was built because the allowance, large enough, expires
\* in the current second
C9_Witness ==
  /\ observed.op = "getPermitData"
  /\ Truthy(quote.request.swapper)
  /\ IsPresent(lastSet)
  /\ Raw(The(lastSet).amount) >= RequiredAmountIn
  /\ The(lastSet).expiration = NowSeconds
  /\ NowSeconds > 0
  /\ IsPresent(observed.permit)
  /\ The(observed.permit).nonce = <<"3">>

====
